---- MODULE Spec2Model ----
(***************************************************************************)
(* Model of sebs/gcp/gcp.py: the GCP deployment client of the serverless   *)
(* benchmark suite.  get_function reconciles the local cache, the packaged *)
(* code and the remote function registry; invoke_sync polls a function     *)
(* until it is active and calls it.                                        *)
(*                                                                         *)
(* Python strings are modelled as sequences of tokens.  The characters     *)
(* "-", "." and "_" are always tokens of their own, so that str.replace    *)
(* on these characters is a token-wise replacement.                        *)
(***************************************************************************)
EXTENDS Integers, Sequences, FiniteSets, TLC

VARIABLES
    cache,              \* persisted cache: benchmark name -> entry or NoEntry
    remote,             \* full names of the functions in the remote registry
    storage,            \* self.storage: input_buckets, output_buckets, objects
    dirs,               \* build directory of each benchmark
    cwd,                \* the process's working directory
    self_project_name,  \* self.project_name
    self_location,      \* self.location
    self_func_name,     \* self.func_name: read by invoke_sync, assigned nowhere
                        \* in gcp.py, so unset or a name set from outside
    op,                 \* operation in progress or last finished
    pc,                 \* position inside the operation
    code_package,       \* the Benchmark argument of get_function
    loc,                \* local variables of the operation
    trace,              \* side effects issued by the operation, in order
    outcome,            \* "none", "running", "returned", "raised"
    ret,                \* the value returned
    requests            \* the caller's accumulator of download_metrics

vars == <<cache, remote, storage, dirs, cwd, self_project_name, self_location,
          self_func_name, op, pc, code_package, loc, trace, outcome, ret,
          requests>>

----------------------------------------------------------------------------
(* Bounds *)

MaxHash == 2        \* source hashes are 1..MaxHash
MaxPolls == 2       \* non-active answers the registry gives to one poller
MaxTime == 1        \* clock readings are 0..MaxTime (microsecond ticks)

Hashes == 1..MaxHash
Times == 0..MaxTime

----------------------------------------------------------------------------
(* Values *)

Unset == <<"<unset>">>      \* an attribute that was never assigned
NoEntry == [present |-> FALSE]
Absent == <<"<absent>">>

ConfigProject == <<"proj">>
ConfigRegion == <<"europe", "-", "west1">>

BenchmarkSet ==
    { [benchmark |-> <<"b1">>,
       language_name |-> <<"python">>,
       language_version |-> <<"3", ".", "8">>] }

BenchmarkConfigs ==
    { [memory |-> 128, timeout |-> 10], [memory |-> 256, timeout |-> 60] }

BenchmarkNames == { b.benchmark : b \in BenchmarkSet }

SleepSeconds == 5

----------------------------------------------------------------------------
(* String helpers *)

\* str.replace(old, new) for a one-character old
RECURSIVE replace(_, _, _)
replace(s, old, new) ==
    IF s = <<>> THEN <<>>
    ELSE (IF Head(s) = old THEN new ELSE <<Head(s)>>) \o replace(Tail(s), old, new)

\* str(n)
str(n) == <<ToString(n)>>

\* json.dumps of a one-key payload dictionary
json_dumps(payload) ==
    <<"{", "\"size\"", ":", " ">> \o str(payload.size) \o <<"}">>

----------------------------------------------------------------------------
(* Names *)

\* f"projects/{project_name}/locations/{location}/functions/{func_name}"
FullFuncName(project_name, location, func_name) ==
    <<"projects", "/">> \o project_name \o <<"/", "locations", "/">> \o location
        \o <<"/", "functions", "/">> \o func_name

\* "projects/{project_name}/locations/{location}"
Parent(project_name, location) ==
    <<"projects", "/">> \o project_name \o <<"/", "locations", "/">> \o location

\* a derivation that forgets to replace the dots
DeriveFuncNameKeepsDots(benchmark, language_name, memory) ==
    LET formatted == <<"foo", "_">> \o benchmark \o <<"-">> \o language_name
                        \o <<"-">> \o str(memory)
    IN  replace(formatted, "-", <<"_">>)

\* the name the uncached path derives for a function
DeriveFuncName(benchmark, language_name, memory) ==
    LET formatted == <<"foo", "_">> \o benchmark \o <<"-">> \o language_name
                        \o <<"-">> \o str(memory)
    IN  replace(replace(formatted, "-", <<"_">>), ".", <<"_">>)

\* a runtime that keeps the dots of the version
RuntimeKeepsDots(language_name, language_version) ==
    language_name \o language_version

\* code_package.language_name + language_runtime.replace(".", "")
Runtime(language_name, language_version) ==
    language_name \o replace(language_version, ".", <<>>)

\* str(timeout) + "s"
TimeoutStr(timeout) == str(timeout) \o <<"s">>

\* a location that leaves out the bucket
SourceArchiveUrlOmitsBucket(bucket, code_package_name) ==
    <<"gs://">> \o code_package_name

\* "gs://" + bucket + "/" + code_package_name
SourceArchiveUrl(bucket, code_package_name) ==
    <<"gs://">> \o bucket \o <<"/">> \o code_package_name

\* the request body of create and of patch
RequestBody(full_func_name, cp, bucket, code_package_name) ==
    [name |-> full_func_name,
     entryPoint |-> <<"handler">>,
     runtime |-> Runtime(cp.language_name, cp.language_version),
     availableMemoryMb |-> cp.memory,
     timeout |-> TimeoutStr(cp.timeout),
     httpsTrigger |-> {},
     sourceArchiveUrl |-> SourceArchiveUrl(bucket, code_package_name)]

\* "{}.zip".format(benchmark.benchmark), the base name of the archive
ArchiveName(benchmark) == benchmark \o <<".", "zip">>

FuncNames ==
    { DeriveFuncName(b.benchmark, b.language_name, c.memory) :
        b \in BenchmarkSet, c \in BenchmarkConfigs }

----------------------------------------------------------------------------
(* Collaborators outside gcp.py *)

\* Benchmark: is_cached, is_cached_valid, cached_config, hash, benchmark_config
CodePackage(b, hash, config) ==
    [benchmark |-> b.benchmark,
     language_name |-> b.language_name,
     language_version |-> b.language_version,
     hash |-> hash,
     memory |-> config.memory,
     timeout |-> config.timeout,
     is_cached |-> cache[b.benchmark].present,
     is_cached_valid |-> cache[b.benchmark].present
                           /\ cache[b.benchmark].config.hash = hash,
     cached_config |-> IF cache[b.benchmark].present
                       THEN cache[b.benchmark].config ELSE Absent]

\* the size of an archive and of a code directory are functions of the content
ArchiveSize(hash) == 10 * hash
DirectorySize(hash) == 10 * hash + 5

\* Storage.add_input_bucket: the input bucket of a benchmark, allocated once
InputBucket(benchmark) == benchmark \o <<"-", "input">>

add_input_bucket(st, benchmark) ==
    IF \E i \in 1..Len(st.input_buckets) : st.input_buckets[i] = InputBucket(benchmark)
    THEN st
    ELSE [st EXCEPT !.input_buckets = Append(@, InputBucket(benchmark))]

\* the bucket name add_input_bucket returns
allocated_bucket(st, benchmark) ==
    LET buckets == add_input_bucket(st, benchmark).input_buckets
    IN  buckets[CHOOSE i \in DOMAIN buckets : buckets[i] = InputBucket(benchmark)]

\* Storage.upload(bucket, object, path)
upload(st, bucket, object) ==
    [st EXCEPT !.objects = @ \cup {<<bucket, object>>}]

\* Cache.add_function(deployment, benchmark, language, package, language_config,
\* storage_config)
cache_add_function(c, benchmark, language_config, storage_config) ==
    [c EXCEPT ![benchmark] = [present |-> TRUE, config |-> language_config,
                              storage |-> storage_config]]

\* Cache.update_function(deployment, benchmark, language, package, config)
cache_update_function(c, benchmark, cached_cfg) ==
    [c EXCEPT ![benchmark] = [@ EXCEPT !.config = cached_cfg]]

\* the invocation url the registry assigns to a function
InvokeUrl(full_func_name) == <<"https://">> \o full_func_name

\* the answer of the registry's list call
ListResponse ==
    IF remote = {} THEN [keys |-> {}, functions |-> {}]
    ELSE [keys |-> {"functions"}, functions |-> remote]

----------------------------------------------------------------------------
(* Steps shared by the operations *)

Ev(o, ok, arg, res) == [op |-> o, ok |-> ok, arg |-> arg, res |-> res]

\* an operation that swallows the exception and repeats the step
RaisedRetries ==
    /\ pc' = pc
    /\ outcome' = outcome
    /\ ret' = ret

\* an exception leaves the operation
Raised ==
    /\ pc' = "idle"
    /\ outcome' = "raised"
    /\ ret' = Absent

Returned(value) ==
    /\ pc' = "idle"
    /\ outcome' = "returned"
    /\ ret' = value

----------------------------------------------------------------------------
(* package_code *)

CONFIG_FILES(language_name) ==
    IF language_name = <<"python">> THEN {"handler.py", ".python_packages"}
    ELSE {"handler.js", "node_modules"}

HANDLER(language_name) ==
    IF language_name = <<"python">> THEN <<"handler.py", "main.py">>
    ELSE <<"handler.js", "index.js">>

\* Benchmark.build(): a directory with the sources, the resources, the
\* dependency manifest and the handler of the language
BuildDirectory(language_name) ==
    [root |-> CONFIG_FILES(language_name) \cup {"function.py", "requirements.txt"},
     function |-> {}]

NoDirectory == [root |-> {}, function |-> {}]

\* lines 118-138: build, relocate everything but the handler and the packages
\* into function/, and write the platform's requirements.txt
PkgPrepare ==
    /\ pc = "pkg_prepare"
    /\ \E ok \in BOOLEAN :
        IF ok
        THEN LET directory == BuildDirectory(code_package.language_name)
                 package_config == CONFIG_FILES(code_package.language_name)
             IN  /\ dirs' = [dirs EXCEPT ![code_package.benchmark] =
                        [root |-> (directory.root \cap package_config)
                                    \cup {"function", "requirements.txt"},
                         function |-> directory.root \ package_config]]
                 /\ pc' = "pkg_rename"
                 /\ UNCHANGED <<outcome, ret, trace>>
        ELSE /\ Raised
             /\ trace' = Append(trace, Ev("package", FALSE, "prepare", Absent))
             /\ UNCHANGED dirs
    /\ UNCHANGED <<cache, remote, storage, cwd, self_project_name, self_location,
                   self_func_name, op, code_package, loc>>
    /\ UNCHANGED requests

\* shutil.move(src, dst) inside one directory
move(files, src, dst) == (files \ {src}) \cup {dst}

\* lines 140-143: enter the directory and rename the handler to the entry point
PkgRename ==
    /\ pc = "pkg_rename"
    /\ LET h == HANDLER(code_package.language_name)
       IN  dirs' = [dirs EXCEPT ![code_package.benchmark].root = move(@, h[1], h[2])]
    /\ loc' = [loc EXCEPT !.cur_dir = cwd]
    /\ cwd' = code_package.benchmark
    /\ pc' = "pkg_zip"
    /\ UNCHANGED <<cache, remote, storage, self_project_name, self_location,
                   self_func_name, op, code_package, trace, outcome, ret>>
    /\ UNCHANGED requests

\* lines 145-153: run zip and read the size of the archive
PkgZip ==
    /\ pc = "pkg_zip"
    /\ \E ok \in BOOLEAN :
        IF ok
        THEN /\ dirs' = [dirs EXCEPT ![code_package.benchmark].root =
                            @ \cup {"benchmark.zip"}]
             /\ loc' = [loc EXCEPT !.bytes_size = ArchiveSize(code_package.hash)]
             /\ pc' = "pkg_restore"
             /\ UNCHANGED <<outcome, ret, trace>>
        ELSE /\ Raised
             /\ trace' = Append(trace, Ev("package", FALSE, "zip", Absent))
             /\ UNCHANGED <<dirs, loc>>
    /\ UNCHANGED <<cache, remote, storage, cwd, self_project_name, self_location,
                   self_func_name, op, code_package>>
    /\ UNCHANGED requests

\* a get_function that writes the cache without the registry call
AfterPackageNoRegistry(path) == IF path = "stale" THEN "stale_write" ELSE "cache_add"

\* lines 198-200 and 237-241: what get_function does with the package: the
\* stale path calls update_function, the uncached path uploads
AfterPackage(path) == IF path = "stale" THEN "patch" ELSE "upload"

\* lines 154-156: rename the handler back, leave the directory, return
PkgRestore ==
    /\ pc = "pkg_restore"
    /\ LET h == HANDLER(code_package.language_name)
       IN  dirs' = [dirs EXCEPT ![code_package.benchmark].root = move(@, h[2], h[1])]
    /\ cwd' = loc.cur_dir
    /\ loc' = [loc EXCEPT !.package = ArchiveName(code_package.benchmark),
                          !.code_size = loc.bytes_size]
    /\ trace' = Append(trace, Ev("package", TRUE, "archive", loc.bytes_size))
    /\ pc' = AfterPackage(loc.path)
    /\ UNCHANGED <<cache, remote, storage, self_project_name, self_location,
                   self_func_name, op, code_package, outcome, ret>>
    /\ UNCHANGED requests

----------------------------------------------------------------------------
(* get_function *)

LocInit ==
    [path |-> "none", func_name |-> Absent, full_func_name |-> Absent,
     cur_dir |-> Absent, bytes_size |-> 0, package |-> Absent, code_size |-> 0,
     bucket |-> Absent, code_package_name |-> Absent, invoke_url |-> Absent,
     name |-> Absent, payload |-> Absent, polls |-> 0, begin |-> 0, end |-> 0]

\* GCPFunction(func_name, benchmark, code_package.hash, self)
GCPFunction(func_name, benchmark, hash) ==
    [name |-> func_name, benchmark |-> benchmark, hash |-> hash]

\* a get_function that never reuses a cached function
BranchAlwaysUpdate(cp) == IF cp.is_cached THEN "stale" ELSE "uncached"

\* a get_function that does not look at the validity of the cache entry
BranchNoValidity(cp) == IF cp.is_cached THEN "valid" ELSE "uncached"

\* lines 179, 189, 226: the branch get_function takes
Branch(cp) ==
    IF cp.is_cached /\ cp.is_cached_valid THEN "valid"
    ELSE IF cp.is_cached THEN "stale"
    ELSE "uncached"

\* lines 172-197 and 226-235: read the configuration and take a branch; the
\* valid branch returns at once
GetFunction(b, hash, config) ==
    /\ pc = "idle"
    /\ LET cp == CodePackage(b, hash, config)
           branch == Branch(cp)
       IN  /\ code_package' = cp
           /\ self_location' = ConfigRegion
           /\ self_project_name' = ConfigProject
           /\ op' = "get_function"
           /\ trace' = <<>>
           /\ CASE branch = "valid" ->
                    /\ loc' = [LocInit EXCEPT !.path = "valid",
                                              !.func_name = cp.cached_config.name]
                    /\ Returned(GCPFunction(cp.cached_config.name, cp.benchmark, cp.hash))
                [] branch = "stale" ->
                    /\ loc' = [LocInit EXCEPT
                                 !.path = "stale",
                                 !.func_name = cp.cached_config.name,
                                 !.full_func_name =
                                    FullFuncName(ConfigProject, ConfigRegion,
                                                 cp.cached_config.name)]
                    /\ pc' = "pkg_prepare"
                    /\ outcome' = "running"
                    /\ ret' = Absent
                [] OTHER ->
                    /\ loc' = [LocInit EXCEPT
                                 !.path = "uncached",
                                 !.func_name = DeriveFuncName(cp.benchmark,
                                                   cp.language_name, cp.memory)]
                    /\ pc' = "pkg_prepare"
                    /\ outcome' = "running"
                    /\ ret' = Absent
    /\ UNCHANGED <<cache, remote, storage, dirs, cwd, self_func_name>>
    /\ UNCHANGED requests

\* lines 239-242: allocate the input bucket and upload the archive
Upload ==
    /\ pc = "upload"
    /\ LET code_package_name == loc.package
           st == add_input_bucket(storage, code_package.benchmark)
           bucket == allocated_bucket(storage, code_package.benchmark)
           arg == [bucket |-> bucket, object |-> code_package_name]
       IN  \E ok \in BOOLEAN :
            IF ok
            THEN /\ storage' = upload(st, bucket, code_package_name)
                 /\ loc' = [loc EXCEPT !.code_package_name = code_package_name,
                                       !.bucket = bucket]
                 /\ trace' = Append(trace, Ev("upload", TRUE, arg, Absent))
                 /\ pc' = "list"
                 /\ UNCHANGED <<outcome, ret>>
            ELSE /\ storage' = st
                 /\ trace' = Append(trace, Ev("upload", FALSE, arg, Absent))
                 /\ Raised
                 /\ UNCHANGED loc
    /\ UNCHANGED <<cache, remote, dirs, cwd, self_project_name, self_location,
                   self_func_name, op, code_package>>
    /\ UNCHANGED requests

\* a lookup that only checks that the project has functions
FoundInListAnyName(res, full_func_name) == "functions" \in res.keys

\* lines 261-263: is the function in the list response
FoundInList(res, full_func_name) ==
    "functions" \in res.keys /\ full_func_name \in res.functions

\* lines 246-263: list the functions of the project and look for the name
List ==
    /\ pc = "list"
    /\ LET arg == Parent(self_project_name, self_location)
           full_func_name == FullFuncName(self_project_name, self_location,
                                          loc.func_name)
       IN  \E ok \in BOOLEAN :
            IF ok
            THEN LET res == ListResponse
                 IN  /\ trace' = Append(trace, Ev("list", TRUE, arg, res))
                     /\ loc' = [loc EXCEPT !.full_func_name = full_func_name]
                     /\ pc' = IF FoundInList(res, full_func_name)
                              THEN "patch" ELSE "create"
                     /\ UNCHANGED <<outcome, ret>>
            ELSE /\ trace' = Append(trace, Ev("list", FALSE, arg, Absent))
                 /\ Raised
                 /\ UNCHANGED loc
    /\ UNCHANGED <<cache, remote, storage, dirs, cwd, self_project_name,
                   self_location, self_func_name, op, code_package>>
    /\ UNCHANGED requests

\* lines 341-376, update_function: allocate the input bucket and patch
UpdateFunction ==
    /\ pc = "patch"
    /\ LET bucket == allocated_bucket(storage, code_package.benchmark)
           arg == [name |-> loc.full_func_name,
                   body |-> RequestBody(loc.full_func_name, code_package, bucket,
                                        loc.package)]
       IN  /\ storage' = add_input_bucket(storage, code_package.benchmark)
           /\ \E ok \in BOOLEAN :
                IF ok /\ loc.full_func_name \in remote
                THEN /\ trace' = Append(trace, Ev("patch", TRUE, arg, Absent))
                     /\ pc' = IF loc.path = "stale" THEN "stale_write" ELSE "get"
                     /\ UNCHANGED <<outcome, ret>>
                ELSE /\ trace' = Append(trace, Ev("patch", FALSE, arg, Absent))
                     /\ Raised
    /\ UNCHANGED <<cache, remote, dirs, cwd, self_project_name, self_location,
                   self_func_name, op, code_package, loc>>
    /\ UNCHANGED requests

\* lines 272-303: create the function
Create ==
    /\ pc = "create"
    /\ LET arg == [location |-> Parent(self_project_name, self_location),
                   body |-> RequestBody(loc.full_func_name, code_package,
                                        loc.bucket, loc.code_package_name)]
       IN  \E ok \in BOOLEAN :
            IF ok /\ loc.full_func_name \notin remote
            THEN /\ remote' = remote \cup {loc.full_func_name}
                 /\ trace' = Append(trace, Ev("create", TRUE, arg, Absent))
                 /\ pc' = "get"
                 /\ UNCHANGED <<outcome, ret>>
            ELSE /\ remote' \in {remote, remote \cup {loc.full_func_name}}
                 /\ trace' = Append(trace, Ev("create", FALSE, arg, Absent))
                 /\ Raised
    /\ UNCHANGED <<cache, storage, dirs, cwd, self_project_name, self_location,
                   self_func_name, op, code_package, loc>>
    /\ UNCHANGED requests

\* lines 305-313: get the function and read its invocation url
Get ==
    /\ pc = "get"
    /\ \E ok \in BOOLEAN :
        IF ok /\ loc.full_func_name \in remote
        THEN \E status \in {"ACTIVE", "DEPLOY_IN_PROGRESS"} :
               LET res == [status |-> status,
                           httpsTrigger |-> [url |-> InvokeUrl(loc.full_func_name)]]
               IN  /\ trace' = Append(trace, Ev("get", TRUE, loc.full_func_name, res))
                   /\ loc' = [loc EXCEPT !.invoke_url = res.httpsTrigger.url]
                   /\ pc' = "cache_add"
                   /\ UNCHANGED <<outcome, ret>>
        ELSE /\ trace' = Append(trace, Ev("get", FALSE, loc.full_func_name, Absent))
             /\ Raised
             /\ UNCHANGED loc
    /\ UNCHANGED <<cache, remote, storage, dirs, cwd, self_project_name,
                   self_location, self_func_name, op, code_package>>
    /\ UNCHANGED requests

\* lines 320-328: the language configuration of a new cache entry
LanguageConfig(cp, l) ==
    [name |-> l.func_name,
     code_size |-> l.code_size,
     runtime |-> cp.language_version,
     memory |-> cp.memory,
     timeout |-> cp.timeout,
     hash |-> cp.hash,
     url |-> l.invoke_url]

\* lines 315-336: record the new cache entry and return the handle
CacheAdd ==
    /\ pc = "cache_add"
    /\ LET storage_config == [buckets |-> [input |-> storage.input_buckets,
                                           output |-> storage.output_buckets]]
       IN  /\ cache' = cache_add_function(cache, code_package.benchmark,
                           LanguageConfig(code_package, loc), storage_config)
           /\ trace' = Append(trace, Ev("cache_add", TRUE,
                                        LanguageConfig(code_package, loc), Absent))
    /\ Returned(GCPFunction(loc.func_name, code_package.benchmark, code_package.hash))
    /\ UNCHANGED <<remote, storage, dirs, cwd, self_project_name, self_location,
                   self_func_name, op, code_package, loc>>
    /\ UNCHANGED requests

\* an update that keeps the hash of the last deployment
StaleConfigKeepsHash(cached_cfg, code_size, timeout, memory, hash) ==
    [cached_cfg EXCEPT !.code_size = code_size, !.timeout = timeout,
                       !.memory = memory]

\* an update that also forgets the invocation url
StaleConfigDropsUrl(cached_cfg, code_size, timeout, memory, hash) ==
    [cached_cfg EXCEPT !.code_size = code_size, !.timeout = timeout,
                       !.memory = memory, !.hash = hash, !.url = Absent]

\* lines 210-214: the cached configuration with the four fields overwritten
StaleConfig(cached_cfg, code_size, timeout, memory, hash) ==
    [cached_cfg EXCEPT !.code_size = code_size, !.timeout = timeout,
                       !.memory = memory, !.hash = hash]

\* lines 208-225: overwrite the cache entry's fields and return the handle
StaleWrite ==
    /\ pc = "stale_write"
    /\ LET code_size == DirectorySize(code_package.hash)
           cached_cfg == StaleConfig(code_package.cached_config, code_size,
                             code_package.timeout, code_package.memory,
                             code_package.hash)
       IN  /\ code_package' = [code_package EXCEPT !.cached_config = cached_cfg]
           /\ loc' = [loc EXCEPT !.code_size = code_size]
           /\ cache' = cache_update_function(cache, code_package.benchmark, cached_cfg)
           /\ trace' = Append(trace, Ev("cache_update", TRUE, cached_cfg, Absent))
    /\ Returned(GCPFunction(loc.func_name, code_package.benchmark, code_package.hash))
    /\ UNCHANGED <<remote, storage, dirs, cwd, self_project_name, self_location,
                   self_func_name, op>>
    /\ UNCHANGED requests

----------------------------------------------------------------------------
(* invoke_sync *)

Payloads == { [size |-> 1] }

Results == { <<"done">> }

\* the answers of the registry's call: a result, or an error message
CallResponses ==
    { [keys |-> {"executionId", "result"}, result |-> r, error |-> Absent] :
        r \in Results }
    \cup { [keys |-> {"executionId", "result", "error"}, result |-> r, error |-> <<>>] :
        r \in Results }
    \cup { [keys |-> {"executionId", "error"}, result |-> Absent,
            error |-> <<"function", "crashed">>] }

\* lines 382-396: build the full name from the attributes of the client and
\* serialise the payload
InvokeSync(name, payload) ==
    /\ pc = "idle"
    /\ op' = "invoke_sync"
    /\ trace' = <<>>
    /\ IF Unset \in {self_project_name, self_location, self_func_name}
       THEN /\ Raised
            /\ loc' = [LocInit EXCEPT !.name = name]
       ELSE /\ loc' = [LocInit EXCEPT
                         !.name = name,
                         !.full_func_name = FullFuncName(self_project_name,
                                                self_location, self_func_name),
                         !.payload = json_dumps(payload)]
            /\ pc' = "poll"
            /\ outcome' = "running"
            /\ ret' = Absent
    /\ UNCHANGED <<cache, remote, storage, dirs, cwd, self_project_name,
                   self_location, self_func_name, code_package>>
    /\ UNCHANGED requests

\* a poller that takes any answer for readiness
IsDeployedAnyStatus(status_res) == status_res.status # ""

\* line 400: the status that ends the polling
IsDeployed(status_res) == status_res.status = "ACTIVE"

\* lines 398-401: one poll of the function's status
Poll ==
    /\ pc = "poll"
    /\ \E ok \in BOOLEAN :
        IF ok /\ loc.full_func_name \in remote
        THEN \E status \in {"ACTIVE", "DEPLOY_IN_PROGRESS"} :
               LET status_res == [status |-> status]
               IN  /\ status = "ACTIVE" \/ loc.polls < MaxPolls
                   /\ trace' = Append(trace,
                                  Ev("get", TRUE, loc.full_func_name, status_res))
                   /\ IF IsDeployed(status_res)
                      THEN pc' = "call" /\ UNCHANGED loc
                      ELSE pc' = "sleep" /\ loc' = [loc EXCEPT !.polls = @ + 1]
                   /\ UNCHANGED <<outcome, ret>>
        ELSE /\ trace' = Append(trace, Ev("get", FALSE, loc.full_func_name, Absent))
             /\ Raised
             /\ UNCHANGED loc
    /\ UNCHANGED <<cache, remote, storage, dirs, cwd, self_project_name,
                   self_location, self_func_name, op, code_package>>
    /\ UNCHANGED requests

\* a poller that gives up after two polls
SleepGivesUp ==
    /\ pc = "sleep"
    /\ trace' = Append(trace, Ev("sleep", TRUE, SleepSeconds, Absent))
    /\ IF loc.polls >= 2
       THEN Raised
       ELSE pc' = "poll" /\ UNCHANGED <<outcome, ret>>
    /\ UNCHANGED <<cache, remote, storage, dirs, cwd, self_project_name,
                   self_location, self_func_name, op, code_package, loc, requests>>

\* lines 402-403: sleep before the next poll
Sleep ==
    /\ pc = "sleep"
    /\ trace' = Append(trace, Ev("sleep", TRUE, SleepSeconds, Absent))
    /\ pc' = "poll"
    /\ UNCHANGED <<cache, remote, storage, dirs, cwd, self_project_name,
                   self_location, self_func_name, op, code_package, loc,
                   outcome, ret>>
    /\ UNCHANGED requests

\* a check that takes the presence of the error field for a failure
InvocationFailedAnyError(res) == "error" \in res.keys

\* line 417: the response reports a failed invocation
InvocationFailed(res) == "error" \in res.keys /\ res.error # <<>>

\* lines 423-426: the value invoke_sync returns
InvocationResult(res, begin, end) ==
    [return |-> res.result, client_time |-> end - begin]

\* lines 405-426: call the function, measure the time, check for an error
Call ==
    /\ pc = "call"
    /\ LET arg == [name |-> loc.full_func_name, body |-> [data |-> loc.payload]]
       IN  \E ok \in BOOLEAN, begin \in Times, end \in Times :
            /\ begin <= end
            /\ loc' = [loc EXCEPT !.begin = begin, !.end = end]
            /\ IF ok
               THEN \E res \in CallResponses :
                      /\ trace' = Append(trace, Ev("call", TRUE, arg, res))
                      /\ IF InvocationFailed(res)
                         THEN Raised
                         ELSE Returned(InvocationResult(res, begin, end))
               ELSE /\ trace' = Append(trace, Ev("call", FALSE, arg, Absent))
                    /\ Raised
    /\ UNCHANGED <<cache, remote, storage, dirs, cwd, self_project_name,
                   self_location, self_func_name, op, code_package>>
    /\ UNCHANGED requests

----------------------------------------------------------------------------
(* Specification *)

\* the accumulator before any download_metrics: two empty lists per function
NoRequests ==
    [f \in FuncNames |-> [execution_times |-> <<>>, user_memory_bytes |-> <<>>]]

NoPackage ==
    [benchmark |-> Absent, language_name |-> Absent, language_version |-> Absent,
     hash |-> 0, memory |-> 0, timeout |-> 0, is_cached |-> FALSE,
     is_cached_valid |-> FALSE, cached_config |-> Absent]

Init ==
    /\ cache = [b \in BenchmarkNames |-> NoEntry]
    /\ remote = {}
    /\ storage = [input_buckets |-> <<>>, output_buckets |-> <<>>, objects |-> {}]
    /\ dirs = [b \in BenchmarkNames |-> NoDirectory]
    /\ cwd = <<"cwd">>
    /\ self_project_name = Unset
    /\ self_location = Unset
    /\ self_func_name \in {Unset} \cup FuncNames
    /\ op = "none"
    /\ pc = "idle"
    /\ code_package = NoPackage
    /\ loc = LocInit
    /\ trace = <<>>
    /\ outcome = "none"
    /\ ret = Absent
    /\ requests = NoRequests

Next ==
    \/ \E b \in BenchmarkSet, hash \in Hashes, config \in BenchmarkConfigs :
         GetFunction(b, hash, config)
    \/ PkgPrepare
    \/ PkgRename
    \/ PkgZip
    \/ PkgRestore
    \/ Upload
    \/ List
    \/ UpdateFunction
    \/ Create
    \/ Get
    \/ CacheAdd
    \/ StaleWrite
    \/ \E name \in FuncNames, payload \in Payloads : InvokeSync(name, payload)
    \/ Poll
    \/ Sleep
    \/ Call

Spec == Init /\ [][Next]_vars

----------------------------------------------------------------------------
(* Reading the trace of an operation *)

Issued(o) == { i \in DOMAIN trace : trace[i].op = o }

Count(o) == Cardinality(Issued(o))

InGetFunction == op = "get_function"

InInvokeSync == op = "invoke_sync"

CachedValidCall ==
    InGetFunction /\ code_package.is_cached /\ code_package.is_cached_valid

CachedStaleCall ==
    InGetFunction /\ code_package.is_cached /\ ~code_package.is_cached_valid

UncachedCall == InGetFunction /\ ~code_package.is_cached

----------------------------------------------------------------------------
(* Claims *)

\* C1 (idempotent reuse): a get_function call for a benchmark with a valid
\* cache entry issues no remote registry call, no packaging, no upload and no
\* cache write (its trace stays empty and no step of it changes the cache, the
\* registry, the storage or the build directories), and it returns a handle
\* whose name and hash are those of the cache entry.
C1_IdempotentReuse ==
    /\ [](CachedValidCall =>
            /\ trace = <<>>
            /\ outcome = "returned"
            /\ ret.name = cache[code_package.benchmark].config.name
            /\ ret.hash = cache[code_package.benchmark].config.hash)
    /\ [][(op' = "get_function" /\ code_package'.is_cached
             /\ code_package'.is_cached_valid)
          => (cache' = cache /\ remote' = remote /\ storage' = storage
                /\ dirs' = dirs)]_vars

C1_Witness ==
    /\ CachedValidCall
    /\ outcome = "returned"
    /\ ret.hash = code_package.hash

\* C2 (hash drift triggers update): a get_function call for a benchmark whose
\* cache entry has another hash never issues a create and issues at most one
\* patch; when it returns it has packaged the code, then issued exactly one
\* successful patch, and the cache entry's hash is the benchmark's new hash.
C2_HashDriftUpdates ==
    CachedStaleCall =>
        /\ Count("create") = 0
        /\ Count("patch") <= 1
        /\ outcome = "returned" =>
            /\ Count("patch") = 1
            /\ \E i \in Issued("package"), j \in Issued("patch") :
                    i < j /\ trace[i].ok /\ trace[j].ok
            /\ cache[code_package.benchmark].config.hash = code_package.hash

C2_Witness ==
    /\ CachedStaleCall
    /\ outcome = "returned"
    /\ Count("patch") = 1
    /\ cache[code_package.benchmark].config.hash = code_package.hash

\* C3 (stage before register): in every get_function call every create and
\* every patch is preceded, in the same call, by a successful upload of the
\* archive to an input bucket.
C3_StageBeforeRegister ==
    InGetFunction =>
        \A i \in Issued("create") \cup Issued("patch") :
            \E j \in Issued("upload") : j < i /\ trace[j].ok

\* C4 (no cache write on failure): a step of get_function changes the persisted
\* cache only when it is the step that returns and a create or patch of the
\* same call has succeeded before it; a step that raises leaves the cache as it
\* was, and a call that raised has written no cache entry.
C4_NoCacheWriteOnFailure ==
    /\ [][(op' = "get_function" /\ cache' # cache) =>
            /\ outcome' = "returned"
            /\ \E i \in Issued("create") \cup Issued("patch") : trace[i].ok]_vars
    /\ []((InGetFunction /\ outcome = "raised") =>
            Count("cache_add") + Count("cache_update") = 0)

C4_Witness ==
    /\ InGetFunction
    /\ outcome = "raised"
    /\ cache[code_package.benchmark].present
    /\ \E i \in Issued("patch") : ~trace[i].ok

\* C5 (list before create): on the uncached path every create and every patch
\* comes after a successful list; it is a patch exactly when the list response
\* contained the full name of the function, so no create is issued for a listed
\* name; at most one of them is issued, and exactly one once the list has
\* answered and the branch was taken.
C5_ListBeforeCreate ==
    UncachedCall =>
        /\ \A i \in Issued("create") \cup Issued("patch") :
              \E j \in Issued("list") :
                  /\ j < i
                  /\ trace[j].ok
                  /\ (trace[i].op = "patch") <=>
                        (trace[i].arg.body.name \in trace[j].res.functions)
        /\ \A i \in Issued("create") \cup Issued("patch") :
              trace[i].arg.body.name =
                  FullFuncName(ConfigProject, ConfigRegion, loc.func_name)
        /\ Count("create") + Count("patch") <= 1
        /\ Count("list") <= 1
        /\ ((\E j \in Issued("list") : trace[j].ok) /\ pc \notin {"patch", "create"})
              => Count("create") + Count("patch") = 1

C5_Witness ==
    /\ UncachedCall
    /\ Count("patch") = 1
    /\ \E j \in Issued("list") : Cardinality(trace[j].res.functions) = 2

\* C6 (packaging round trip): once package_code has finished after renaming
\* the handler, by returning the archive or by raising in the archiving step,
\* the build directory holds the handler under its original name and not under
\* the entry-point name.
C6_PackagingRoundTrip ==
    (/\ InGetFunction
     /\ pc \notin {"pkg_prepare", "pkg_rename", "pkg_zip", "pkg_restore"}
     /\ \E i \in Issued("package") : trace[i].arg \in {"archive", "zip"}) =>
        LET h == HANDLER(code_package.language_name)
            root == dirs[code_package.benchmark].root
        IN  h[1] \in root /\ h[2] \notin root

\* the get answers of a poller, in order
PollAnswers == SelectSeq(trace, LAMBDA e : e.op = "get" /\ e.ok)

NonActive == { i \in DOMAIN PollAnswers : PollAnswers[i].res.status # "ACTIVE" }

\* C7 (poller termination): invoke_sync issues at most one invocation call; the
\* event right before the call is a get that reported ACTIVE; with N the number
\* of non-active answers, the call comes after exactly N+1 gets, the first N of
\* them the non-active ones, and no get follows the ACTIVE answer.
C7_PollerTermination ==
    InInvokeSync =>
        /\ Count("call") <= 1
        /\ \A c \in Issued("call") :
              /\ c > 1
              /\ trace[c - 1].op = "get" /\ trace[c - 1].ok
              /\ trace[c - 1].res.status = "ACTIVE"
              /\ \A i \in Issued("get") : i < c
        /\ (\E i \in DOMAIN PollAnswers : PollAnswers[i].res.status = "ACTIVE") =>
              /\ Count("get") = Cardinality(NonActive) + 1
              /\ NonActive = 1..(Count("get") - 1)
              /\ pc = "call" \/ Count("call") = 1

C7_Witness ==
    /\ InInvokeSync
    /\ Count("call") = 1
    /\ Cardinality(NonActive) = 2
    /\ Count("get") = 3

C9_StalePathFrame ==
    [][(op' = "get_function" /\ code_package.is_cached /\ cache' # cache) =>
        LET b == code_package.benchmark
        IN  /\ cache'[b].present
            /\ \A f \in {"name", "runtime", "url"} :
                  cache'[b].config[f] = cache[b].config[f]
            /\ DOMAIN cache'[b].config = DOMAIN cache[b].config
            /\ cache'[b].storage = cache[b].storage
            /\ \A o \in BenchmarkNames \ {b} : cache'[o] = cache[o]]_vars

C9_Witness ==
    /\ CachedStaleCall
    /\ outcome = "returned"
    /\ Count("cache_update") = 1
    /\ cache[code_package.benchmark].config.memory = code_package.memory
    /\ cache[code_package.benchmark].config.name
          # DeriveFuncName(code_package.benchmark, code_package.language_name,
                           code_package.memory)

\* tokens "-" and "." replaced by "_"
Normalised(s) == [i \in DOMAIN s |-> IF s[i] \in {"-", "."} THEN "_" ELSE s[i]]

ExpectedFuncName(cp) ==
    Normalised(<<"foo", "_">> \o cp.benchmark \o <<"-">> \o cp.language_name)
        \o <<"_", ToString(cp.memory)>>

\* C10 (uncached create): an uncached get_function call whose list response did
\* not contain the derived name and that returns has issued exactly one create
\* and no patch; the create body's runtime is the language name followed by the
\* version without its dots (python 3.8 gives python38), its availableMemoryMb
\* is the configured memory, its timeout the configured timeout followed by
\* "s"; one get follows the create, and the new cache entry holds the derived
\* name (foo_b1_python_256 for b1, python, 256) and the url that get returned.
C10_UncachedCreate ==
    (/\ UncachedCall
     /\ outcome = "returned"
     /\ \E j \in Issued("list") :
            FullFuncName(ConfigProject, ConfigRegion, ExpectedFuncName(code_package))
                \notin trace[j].res.functions) =>
        /\ Count("create") = 1 /\ Count("patch") = 0 /\ Count("get") = 1
        /\ \A c \in Issued("create"), g \in Issued("get") :
            LET body == trace[c].arg.body
                entry == cache[code_package.benchmark]
            IN  /\ c < g
                /\ body.runtime = code_package.language_name
                      \o SelectSeq(code_package.language_version, LAMBDA t : t # ".")
                /\ (code_package.language_name = <<"python">>
                      /\ code_package.language_version = <<"3", ".", "8">>)
                        => body.runtime = <<"python", "3", "8">>
                /\ body.availableMemoryMb = code_package.memory
                /\ body.timeout = <<ToString(code_package.timeout), "s">>
                /\ body.name = FullFuncName(ConfigProject, ConfigRegion,
                                            ExpectedFuncName(code_package))
                /\ trace[g].arg = body.name
                /\ entry.present
                /\ entry.config.name = ExpectedFuncName(code_package)
                /\ (code_package.benchmark = <<"b1">> /\ code_package.memory = 256)
                      => entry.config.name = <<"foo", "_", "b1", "_", "python", "_", "256">>
                /\ entry.config.url = trace[g].res.httpsTrigger.url

C10_Witness ==
    /\ UncachedCall
    /\ outcome = "returned"
    /\ Count("create") = 1
    /\ code_package.memory = 256
    /\ cache[code_package.benchmark].config.name
          = <<"foo", "_", "b1", "_", "python", "_", "256">>

----------------------------------------------------------------------------
(* The naming of functions, over benchmark names with hyphens and dots *)

MaxNameLen == 2     \* benchmark names have 1..MaxNameLen tokens

NameTokens == {"b1", "html", "-", "."}

RECURSIVE TokenSeqs(_)
TokenSeqs(n) ==
    IF n = 0 THEN {<<>>}
    ELSE LET shorter == TokenSeqs(n - 1)
         IN  shorter \cup { Append(s, t) : s \in { x \in shorter : Len(x) = n - 1 },
                                           t \in NameTokens }

NamingNames == TokenSeqs(MaxNameLen) \ {<<>>}

NamingBenchmarks ==
    { [benchmark |-> n, language_name |-> l.name, language_version |-> l.version] :
        n \in NamingNames,
        l \in { [name |-> <<"python">>, version |-> <<"3", ".", "8">>],
                [name |-> <<"nodejs">>, version |-> <<"10">>] } }

\* a client whose cache and build directories are those of one benchmark name
NamingInit ==
    /\ \E n \in NamingNames :
        /\ cache = [x \in {n} |-> NoEntry]
        /\ dirs = [x \in {n} |-> NoDirectory]
    /\ remote = {}
    /\ storage = [input_buckets |-> <<>>, output_buckets |-> <<>>, objects |-> {}]
    /\ cwd = <<"cwd">>
    /\ self_project_name = Unset
    /\ self_location = Unset
    /\ self_func_name = Unset
    /\ op = "none"
    /\ pc = "idle"
    /\ code_package = NoPackage
    /\ loc = LocInit
    /\ trace = <<>>
    /\ outcome = "none"
    /\ ret = Absent
    /\ requests = NoRequests

\* get_function up to the derivation of the name and the start of packaging
NamingNext ==
    \/ \E b \in NamingBenchmarks, hash \in Hashes, config \in BenchmarkConfigs :
         b.benchmark \in DOMAIN cache /\ GetFunction(b, hash, config)
    \/ PkgPrepare

NamingSpec == NamingInit /\ [][NamingNext]_vars

\* C11 (deterministic naming): the name an uncached get_function call derives
\* is a function of the benchmark name, the language and the memory alone,
\* whatever the hash, the timeout and the calls before it: it is "foo_", the
\* benchmark name, the language and the memory joined by "_", with every
\* hyphen and dot replaced by "_" (foo_b1_python_256 for b1, python, 256), and
\* so it contains no hyphen and no dot.
C11_DeterministicNaming ==
    UncachedCall =>
        /\ loc.func_name = ExpectedFuncName(code_package)
        /\ \A i \in DOMAIN loc.func_name : loc.func_name[i] \notin {"-", "."}
        /\ (code_package.benchmark = <<"b1">>
              /\ code_package.language_name = <<"python">>
              /\ code_package.memory = 256)
                => loc.func_name = <<"foo", "_", "b1", "_", "python", "_", "256">>

C11_Witness ==
    /\ UncachedCall
    /\ Len(trace) > 0
    /\ \E i \in DOMAIN code_package.benchmark : code_package.benchmark[i] = "."
    /\ code_package.benchmark[1] = "-"

----------------------------------------------------------------------------
(* download_metrics *)

MaxPoints == 2      \* download_metrics is called while a bucket has fewer entries

GuardBand == 60

MetricTypes == <<"execution_times", "user_memory_bytes">>

\* the (start_time, end_time) windows of the calls
MetricWindows == { <<100, 100>>, <<200, 200>>, <<100, 200>>, <<400, 400>> }

\* the time series the monitoring service holds, per metric type
TimeSeriesData(metric) ==
    LET base == IF metric = "execution_times" THEN 0 ELSE 1000
        f1 == <<"foo", "_", "b1", "_", "python", "_", "128">>
        f2 == <<"foo", "_", "b1", "_", "python", "_", "256">>
    IN  << [function_name |-> f1,
            points |-> << [time |-> 250, mean |-> base + 12, count |-> 3],
                          [time |-> 100, mean |-> base + 11, count |-> 1] >>],
           [function_name |-> f2,
            points |-> << [time |-> 100, mean |-> base + 21, count |-> 2] >>] >>

\* lines 446-447: the interval of the query
Interval(start_time, end_time) ==
    [start_time |-> start_time - GuardBand, end_time |-> end_time + GuardBand]

\* client.list_time_series: the series that have points in the interval, with
\* those points
list_time_series(metric, interval) ==
    LET data == TimeSeriesData(metric)
        inside(p) == interval.start_time <= p.time /\ p.time <= interval.end_time
        cut == [i \in DOMAIN data |->
                  [data[i] EXCEPT !.points = SelectSeq(@, inside)]]
    IN  SelectSeq(cut, LAMBDA r : r.points # <<>>)

\* lines 459-462 and 475-478: the entry appended for a point
MetricEntry(metric, point) ==
    IF metric = "execution_times"
    THEN [mean_time |-> point.mean, executions_count |-> point.count]
    ELSE [mean_memory |-> point.mean, executions_count |-> point.count]

\* a collector that replaces the list
AccumulateOverwrites(bucket, entries) == entries

\* lines 458 and 474: bucket += entries
Accumulate(bucket, entries) == bucket \o entries

\* a collector that takes the series of every function
MatchesAnySeries(result, function_name) == TRUE

\* lines 456 and 472: result.resource.labels.get("function_name") == function_name
Matches(result, function_name) == result.function_name = function_name

\* lines 457-463 and 473-479: the loop over the points of a series
RECURSIVE CollectPoints(_, _, _)
CollectPoints(bucket, points, metric) ==
    IF points = <<>> THEN bucket
    ELSE CollectPoints(Accumulate(bucket, <<MetricEntry(metric, Head(points))>>),
                       Tail(points), metric)

\* lines 455-463 and 471-479: the loop over the series of a response
RECURSIVE CollectSeries(_, _, _, _)
CollectSeries(bucket, results, function_name, metric) ==
    IF results = <<>> THEN bucket
    ELSE CollectSeries(IF Matches(Head(results), function_name)
                       THEN CollectPoints(bucket, Head(results).points, metric)
                       ELSE bucket,
                       Tail(results), function_name, metric)

\* lines 434-479: two queries, each followed by the loop that appends to the
\* function's bucket; a query that raises ends the call
DownloadMetrics(function_name, start_time, end_time) ==
    /\ pc = "idle"
    /\ Len(requests[function_name].execution_times) < MaxPoints
    /\ op' = "download_metrics"
    /\ LET interval == Interval(start_time, end_time)
           arg(metric) == [metric |-> metric, interval |-> interval,
                           function_name |-> function_name]
           results1 == list_time_series(MetricTypes[1], interval)
           results2 == list_time_series(MetricTypes[2], interval)
           after1 == [requests EXCEPT ![function_name].execution_times =
                        CollectSeries(@, results1, function_name, MetricTypes[1])]
           after2 == [after1 EXCEPT ![function_name].user_memory_bytes =
                        CollectSeries(@, results2, function_name, MetricTypes[2])]
       IN  \E failing \in {0, 1, 2} :
            CASE failing = 1 ->
                    /\ trace' = <<Ev("list_time_series", FALSE, arg(MetricTypes[1]), Absent)>>
                    /\ requests' = requests
                    /\ Raised
              [] failing = 2 ->
                    /\ trace' = <<Ev("list_time_series", TRUE, arg(MetricTypes[1]), results1),
                                  Ev("list_time_series", FALSE, arg(MetricTypes[2]), Absent)>>
                    /\ requests' = after1
                    /\ Raised
              [] OTHER ->
                    /\ trace' = <<Ev("list_time_series", TRUE, arg(MetricTypes[1]), results1),
                                  Ev("list_time_series", TRUE, arg(MetricTypes[2]), results2)>>
                    /\ requests' = after2
                    /\ Returned(Absent)
    /\ loc' = [LocInit EXCEPT !.name = function_name]
    /\ UNCHANGED <<cache, remote, storage, dirs, cwd, self_project_name,
                   self_location, self_func_name, code_package>>

MetricsInit ==
    /\ Init
    /\ self_func_name = Unset

MetricsNext ==
    \E function_name \in FuncNames, w \in MetricWindows :
        DownloadMetrics(function_name, w[1], w[2])

MetricsSpec == MetricsInit /\ [][MetricsNext]_vars


\* the points of a sequence of series, in order
RECURSIVE FlatPoints(_)
FlatPoints(results) ==
    IF results = <<>> THEN <<>>
    ELSE Head(results).points \o FlatPoints(Tail(results))

\* the points a response holds for a function
PointsFor(results, f) ==
    FlatPoints(SelectSeq(results, LAMBDA r : r.function_name = f))

\* the answer to the query of a metric in a call's trace, empty when it raised
\* or was not issued
Answer(tr, metric) ==
    LET hits == SelectSeq(tr, LAMBDA e : e.op = "list_time_series" /\ e.ok
                                          /\ e.arg.metric = metric)
    IN  IF hits = <<>> THEN <<>> ELSE hits[1].res

\* C12 (metrics accumulation): every download_metrics call for a function
\* leaves each of its two lists equal to the list before the call followed by
\* one entry per point the call's query returned for that function, in the
\* order returned; so every earlier entry keeps its position and the list after
\* several calls is the concatenation of the calls' points in call order.
C12_MetricsAccumulation ==
    [][op' = "download_metrics" =>
        LET f == loc'.name
            exec == PointsFor(Answer(trace', "execution_times"), f)
            mem == PointsFor(Answer(trace', "user_memory_bytes"), f)
        IN  /\ requests'[f].execution_times =
                  requests[f].execution_times
                    \o [i \in DOMAIN exec |->
                          [mean_time |-> exec[i].mean,
                           executions_count |-> exec[i].count]]
            /\ requests'[f].user_memory_bytes =
                  requests[f].user_memory_bytes
                    \o [i \in DOMAIN mem |->
                          [mean_memory |-> mem[i].mean,
                           executions_count |-> mem[i].count]]
            /\ \A i \in DOMAIN requests[f].execution_times :
                  requests'[f].execution_times[i] = requests[f].execution_times[i]
            /\ \A i \in DOMAIN requests[f].user_memory_bytes :
                  requests'[f].user_memory_bytes[i] = requests[f].user_memory_bytes[i]
      ]_vars

\* two calls for one function over the disjoint windows around 100 and 200
C12_Witness ==
    /\ op = "download_metrics"
    /\ outcome = "returned"
    /\ trace[1].arg.interval.start_time = 200 - GuardBand
    /\ Len(requests[loc.name].execution_times) = 2
    /\ requests[loc.name].execution_times[1].mean_time = 11
    /\ requests[loc.name].execution_times[2].mean_time = 12
    /\ Len(requests[loc.name].user_memory_bytes) = 2

\* the (series, point) positions of a response that belong to a function
Positions(results, f) ==
    { <<i, j>> \in (DOMAIN results) \X (1..Len(FlatPoints(results))) :
        j \in DOMAIN results[i].points /\ results[i].function_name = f }

\* C18 (metrics attribution frame): a download_metrics call for function F
\* appends to each list of F as many entries as the answered query holds points
\* in series labelled F, each entry carrying the mean and count of such a
\* point; it appends nothing for the series of other labels and leaves the
\* lists of every other function as they were.
C18_MetricsAttribution ==
    [][op' = "download_metrics" =>
        LET f == loc'.name
            old == requests[f]
            new == requests'[f]
            exec == Answer(trace', "execution_times")
            mem == Answer(trace', "user_memory_bytes")
        IN  /\ \A g \in FuncNames \ {f} : requests'[g] = requests[g]
            /\ DOMAIN requests' = DOMAIN requests
            /\ Len(new.execution_times) - Len(old.execution_times)
                  = Cardinality(Positions(exec, f))
            /\ Len(new.user_memory_bytes) - Len(old.user_memory_bytes)
                  = Cardinality(Positions(mem, f))
            /\ \A k \in (Len(old.execution_times) + 1)..Len(new.execution_times) :
                  \E p \in Positions(exec, f) :
                      /\ new.execution_times[k].mean_time = exec[p[1]].points[p[2]].mean
                      /\ new.execution_times[k].executions_count
                            = exec[p[1]].points[p[2]].count
            /\ \A k \in (Len(old.user_memory_bytes) + 1)..Len(new.user_memory_bytes) :
                  \E p \in Positions(mem, f) :
                      /\ new.user_memory_bytes[k].mean_memory = mem[p[1]].points[p[2]].mean
                      /\ new.user_memory_bytes[k].executions_count
                            = mem[p[1]].points[p[2]].count
      ]_vars

\* a call for the second function whose answers also held a series of the first
C18_Witness ==
    /\ op = "download_metrics"
    /\ outcome = "returned"
    /\ Len(trace[1].res) = 2
    /\ trace[1].res[1].function_name # loc.name
    /\ Len(requests[loc.name].execution_times) = 1
    /\ requests[loc.name].execution_times[1].mean_time = 21
    /\ \E g \in FuncNames \ {loc.name} : Len(requests[g].execution_times) = 1

----------------------------------------------------------------------------
(* Claims on the polling, the errors and the reconciliation *)

\* invoke_sync has built the full name and entered the polling loop
InPollingLoop == InInvokeSync /\ loc.full_func_name # Absent

\* every get issued so far was answered with a non-active status
OnlyNonActiveAnswers ==
    \A i \in Issued("get") : trace[i].ok /\ trace[i].res.status # "ACTIVE"

\* C13 (unbounded polling): as long as every get of invoke_sync was answered
\* with a non-active status, whatever their number, invoke_sync is still
\* running in its loop: it has issued gets and sleeps of 5 in alternation, no
\* invocation call, and it has neither returned nor raised.
C13_UnboundedPolling ==
    (InPollingLoop /\ OnlyNonActiveAnswers) =>
        /\ outcome = "running"
        /\ pc \in {"poll", "sleep"}
        /\ Count("call") = 0
        /\ \A i \in DOMAIN trace :
              IF i % 2 = 1 THEN trace[i].op = "get"
              ELSE trace[i].op = "sleep" /\ trace[i].arg = 5
        /\ (pc = "poll") <=> (Len(trace) % 2 = 0)

C13_Witness ==
    /\ InPollingLoop
    /\ OnlyNonActiveAnswers
    /\ Count("get") = 2
    /\ Len(trace) = 4
    /\ pc = "poll"

RemoteOps == {"list", "create", "patch", "get", "call"}

\* C14 (no retry on transport errors): a remote call of get_function or
\* invoke_sync that raised is the last thing the operation did, and the
\* operation has ended by raising; a get_function call issues each of list,
\* create, patch and get at most once.
C14_NoRetry ==
    (InGetFunction \/ InInvokeSync) =>
        /\ \A i \in DOMAIN trace :
              (trace[i].op \in RemoteOps /\ ~trace[i].ok) =>
                  i = Len(trace) /\ outcome = "raised" /\ pc = "idle"
        /\ InGetFunction =>
              \A o \in {"list", "create", "patch", "get"} : Count(o) <= 1

C14_Witness ==
    /\ InGetFunction
    /\ outcome = "raised"
    /\ Count("create") = 1
    /\ \E i \in Issued("get") : ~trace[i].ok /\ i = Len(trace)

\* C15 (reconciliation converges): when a get_function call has returned, the
\* handle's hash and the hash of the persisted cache entry are the benchmark's
\* hash; and a get_function call that follows it for the same benchmark with
\* the same hash returns at once, with no remote call and the registry as it
\* was.
C15_ReconciliationConverges ==
    /\ []((InGetFunction /\ outcome = "returned") =>
            /\ ret.hash = code_package.hash
            /\ cache[code_package.benchmark].present
            /\ cache[code_package.benchmark].config.hash = code_package.hash)
    /\ [][(/\ InGetFunction /\ outcome = "returned" /\ pc = "idle"
           /\ op' = "get_function"
           /\ code_package'.benchmark = code_package.benchmark
           /\ code_package'.hash = code_package.hash) =>
            /\ outcome' = "returned"
            /\ trace' = <<>>
            /\ remote' = remote
            /\ cache' = cache
            /\ ret'.hash = ret.hash]_vars

\* a reuse right after an update of the stale entry
C15_Witness ==
    /\ CachedValidCall
    /\ outcome = "returned"
    /\ trace = <<>>
    /\ cache[code_package.benchmark].config.code_size = DirectorySize(code_package.hash)
    /\ cache[code_package.benchmark].config.memory # code_package.memory

\* C16 (invocation target): every get and every call of invoke_sync addresses
\* projects/<project>/locations/<region>/functions/<name>, with <name> the name
\* argument of invoke_sync.
C16_InvocationTarget ==
    InInvokeSync =>
        /\ \A i \in Issued("get") :
              trace[i].arg = FullFuncName(ConfigProject, ConfigRegion, loc.name)
        /\ \A i \in Issued("call") :
              trace[i].arg.name = FullFuncName(ConfigProject, ConfigRegion, loc.name)

\* C17 (archive location consistency): on the uncached path the
\* sourceArchiveUrl of the create or patch request is "gs://", the bucket, "/"
\* and the object name of the upload made earlier in the call, also when the
\* function exists remotely and update_function allocates the bucket again.
C17_ArchiveLocation ==
    UncachedCall =>
        \A i \in Issued("create") \cup Issued("patch") :
            \E j \in Issued("upload") :
                /\ j < i
                /\ trace[j].ok
                /\ trace[i].arg.body.sourceArchiveUrl
                      = <<"gs://">> \o trace[j].arg.bucket \o <<"/">> \o trace[j].arg.object

C17_Witness ==
    /\ UncachedCall
    /\ \E i \in Issued("patch") : trace[i].ok
    /\ \E j \in Issued("upload") : trace[j].ok

====
